---- MODULE Spec2Model ----
(***************************************************************************)
(* A model of the BatPU assembler (src/src/assembler.rs): pass 1 (parse,   *)
(* parse_line, parse_piece and the operand parsers) and pass 2 (assemble,  *)
(* Instruction::binary).  Source text is modelled as text: a token, a      *)
(* fragment and a physical line are strings, and the lexical steps         *)
(* (find "//", trim, split(';'), split_whitespace, starts_with, ends_with, *)
(* the radix parsers) are computed character by character.                 *)
(***************************************************************************)
EXTENDS Integers, Sequences, FiniteSets, TLC

VARIABLES
    config,         \* AssemblerConfig: [default_defines, overflow_checks]
    instructions,   \* Vec<(Instruction, u32)>: sequence of <<instruction, line>>
    labels,         \* Labels: label name -> instruction index
    defines,        \* HashMap<String, String>: define name -> replacement text
    line,           \* self.line
    pc,             \* "idle", "parsing" (inside parse's loop) or "panicked"
    input,          \* the lines parse has consumed so far in the current call
    errors,         \* parse's local `errors` vector
    result,         \* what the last finished call returned
    trace,          \* history: per parse call, one record per fragment handled
    parseFailed     \* history: some parse call on this assembler returned Err

vars == <<config, instructions, labels, defines, line, pc, input, errors,
          result, trace, parseFailed>>

(***************************************************************************)
(* Bounds of the model.                                                    *)
(***************************************************************************)
\* physical lines fed to one assembler, over all its parse calls
MaxLines == 3
\* address::MAX_VALUE, the highest address of program space, scaled down so
\* that a bounded input can fill program space
MAX_VALUE == 3

(***************************************************************************)
(* Text primitives (str methods of the standard library).                  *)
(***************************************************************************)
CharAt(s, i) == SubSeq(s, i, i)

starts_with(s, p) == Len(s) >= Len(p) /\ SubSeq(s, 1, Len(p)) = p

ends_with(s, p) == Len(s) >= Len(p) /\ SubSeq(s, Len(s) - Len(p) + 1, Len(s)) = p

is_whitespace(c) == c \in {" ", "\t"}

\* str::find: the 1-based index of the first occurrence of p in s, 0 for None
RECURSIVE find_from(_, _, _)
find_from(s, p, i) ==
    IF i + Len(p) - 1 > Len(s) THEN 0
    ELSE IF SubSeq(s, i, i + Len(p) - 1) = p THEN i
    ELSE find_from(s, p, i + 1)

find(s, p) == find_from(s, p, 1)

RECURSIVE trim_start(_)
trim_start(s) ==
    IF Len(s) > 0 /\ is_whitespace(CharAt(s, 1)) THEN trim_start(Tail(s)) ELSE s

RECURSIVE trim_end(_)
trim_end(s) ==
    IF Len(s) > 0 /\ is_whitespace(CharAt(s, Len(s)))
    THEN trim_end(SubSeq(s, 1, Len(s) - 1)) ELSE s

trim(s) == trim_end(trim_start(s))

\* str::split(c): the pieces between occurrences of c, empty pieces kept
RECURSIVE split(_, _)
split(s, c) ==
    LET i == find(s, c) IN
    IF i = 0 THEN <<s>>
    ELSE <<SubSeq(s, 1, i - 1)>> \o split(SubSeq(s, i + 1, Len(s)), c)

\* str::split_whitespace: the maximal runs of non-whitespace characters
RECURSIVE word_end(_, _)
word_end(s, i) ==
    IF i > Len(s) \/ is_whitespace(CharAt(s, i)) THEN i - 1 ELSE word_end(s, i + 1)

RECURSIVE split_whitespace(_)
split_whitespace(s) ==
    LET t == trim_start(s) IN
    IF Len(t) = 0 THEN <<>>
    ELSE LET e == word_end(t, 1) IN
         <<SubSeq(t, 1, e)>> \o split_whitespace(SubSeq(t, e + 1, Len(t)))

\* str::replace(c, ""): s without the occurrences of the character c
RECURSIVE remove_char(_, _)
remove_char(s, c) ==
    IF Len(s) = 0 THEN s
    ELSE IF CharAt(s, 1) = c THEN remove_char(Tail(s), c)
    ELSE CharAt(s, 1) \o remove_char(Tail(s), c)

(***************************************************************************)
(* Integer parsing (u32/i32 from_str_radix and str::parse).                *)
(***************************************************************************)
Digits == <<"0", "1", "2", "3", "4", "5", "6", "7", "8", "9",
            "a", "b", "c", "d", "e", "f">>
UpperDigits == <<"0", "1", "2", "3", "4", "5", "6", "7", "8", "9",
                 "A", "B", "C", "D", "E", "F">>

\* char::to_digit(radix): the digit's value, -1 for None
to_digit(c, radix) ==
    LET hits == {d \in 1..radix : Digits[d] = c \/ UpperDigits[d] = c} IN
    IF hits = {} THEN -1 ELSE (CHOOSE d \in hits : TRUE) - 1

Ok(v) == [tag |-> "Ok", val |-> v]
Err(e) == [tag |-> "Err", err |-> e]
Panic == [tag |-> "Panic"]

\* A magnitude of up to 32 bits is kept as two 16-bit limbs <<high, low>>,
\* so that every u32 and the magnitude of every i32 is represented exactly.
Limb == 2^16

limbs_gt(a, b) == a[1] > b[1] \/ (a[1] = b[1] /\ a[2] > b[2])

\* value * radix + digit on limbs; the high limb may leave 16 bits
limbs_push(value, radix, digit) ==
    LET low == value[2] * radix + digit IN
    <<value[1] * radix + low \div Limb, low % Limb>>

\* the checked digit loop of from_str_radix: the first invalid digit or the
\* first digit that takes the magnitude past max ends it
RECURSIVE accumulate(_, _, _, _, _)
accumulate(s, radix, value, max, overflow) ==
    IF Len(s) = 0 THEN Ok(value)
    ELSE LET d == to_digit(CharAt(s, 1), radix) IN
         IF d < 0 THEN Err("invalid digit found in string")
         ELSE LET next == limbs_push(value, radix, d) IN
              IF limbs_gt(next, max) THEN Err(overflow)
              ELSE accumulate(Tail(s), radix, next, max, overflow)

PosOverflow == "number too large to fit in target type"
NegOverflow == "number too small to fit in target type"

\* u32::from_str_radix: the value as limbs
u32_from_str_radix(s, radix) ==
    IF Len(s) = 0 THEN Err("cannot parse integer from empty string")
    ELSE IF s \in {"+", "-"} THEN Err("invalid digit found in string")
    ELSE LET digits == IF CharAt(s, 1) = "+" THEN Tail(s) ELSE s IN
         accumulate(digits, radix, <<0, 0>>, <<Limb - 1, Limb - 1>>, PosOverflow)

\* the magnitude a digit loop returned, as an i32
i32_value(r, negative) ==
    IF r.tag # "Ok" THEN r
    ELSE IF negative THEN Ok((0 - r.val[1]) * Limb - r.val[2])
    ELSE Ok(r.val[1] * Limb + r.val[2])

\* i32::from_str_radix: the value as an integer in -2^31 .. 2^31 - 1
i32_from_str_radix(s, radix) ==
    IF Len(s) = 0 THEN Err("cannot parse integer from empty string")
    ELSE IF s \in {"+", "-"} THEN Err("invalid digit found in string")
    ELSE IF CharAt(s, 1) = "-"
    THEN i32_value(accumulate(Tail(s), radix, <<0, 0>>, <<Limb \div 2, 0>>, NegOverflow), TRUE)
    ELSE i32_value(accumulate(IF CharAt(s, 1) = "+" THEN Tail(s) ELSE s, radix, <<0, 0>>,
                              <<Limb \div 2 - 1, Limb - 1>>, PosOverflow), FALSE)

\* the radix a literal's prefix selects, and the digits after the prefix
radix_of(s) == IF starts_with(s, "0x") THEN 16 ELSE IF starts_with(s, "0b") THEN 2 ELSE 10

digits_of(s) ==
    IF starts_with(s, "0x") \/ starts_with(s, "0b") THEN SubSeq(s, 3, Len(s)) ELSE s

u32_prefixed(s) == u32_from_str_radix(digits_of(s), radix_of(s))

parse_u32(str) == u32_prefixed(remove_char(str, "_"))

i32_prefixed(s) == i32_from_str_radix(digits_of(s), radix_of(s))

parse_i32(str) == i32_prefixed(remove_char(str, "_"))

I32_MIN == (0 - Limb \div 2) * Limb

\* `num as i32` of a u32: the same 32 bits read as two's complement
u32_as_i32(num) ==
    IF num[1] < Limb \div 2 THEN num[1] * Limb + num[2]
    ELSE (num[1] - Limb) * Limb + num[2]

\* num > small for a u32 num and a bound below 2^16
u32_gt(num, small) == num[1] > 0 \/ num[2] > small

\* `num as usize` of a u32 known to be at most a bound below 2^16
u32_low(num) == num[2]

\* Display of a u32: its decimal digits
RECURSIVE u32_to_string(_)
u32_to_string(num) ==
    IF num[1] = 0 THEN ToString(num[2])
    ELSE LET rest == (num[1] % 10) * Limb + num[2] IN
         u32_to_string(<<num[1] \div 10, rest \div 10>>) \o ToString(rest % 10)

(***************************************************************************)
(* Errors (src/src/assembler_error.rs).  Option<u32> is <<>> for None and  *)
(* <<n>> for Some(n).                                                      *)
(***************************************************************************)
None == <<>>
Some(v) == <<v>>

AssemblerError_new(description) == [description |-> description, line |-> None]

AssemblerError_new_line(description, l) == [description |-> description, line |-> Some(l)]

\* an AssemblyError of the component constructors, boxed by `?` as it is
AssemblyError(description) == [description |-> description, line |-> None]

from_assembly_error_line(error, l) == [description |-> error.description, line |-> Some(l)]

\* Option<u32>::cmp: None is less than every Some; -1, 0, 1 for Less, Equal, Greater
option_cmp(a, b) ==
    IF a = None THEN (IF b = None THEN 0 ELSE -1)
    ELSE IF b = None THEN 1
    ELSE IF a[1] < b[1] THEN -1 ELSE IF a[1] > b[1] THEN 1 ELSE 0

\* impl Ord for AssemblerError: the lines compared
cmp(self, other) == option_cmp(self.line, other.line)

\* #[derive(PartialEq, Eq)] on AssemblerError: both fields compared
eq(self, other) == self.description = other.description /\ self.line = other.line

(***************************************************************************)
(* Operand components.                                                     *)
(***************************************************************************)
MAX_POSSIBLE_COUNT == MAX_VALUE + 1

Register_new(num) ==
    IF u32_gt(num, 15)
    THEN Err(AssemblyError("Register " \o u32_to_string(num) \o " out of range, expected 0-15"))
    ELSE Ok(u32_low(num))

Offset_new(num) ==
    IF num < -8 \/ num > 7
    THEN Err(AssemblyError("Offset " \o ToString(num) \o " out of range, expected -8-7"))
    ELSE Ok(num)

\* the highest address an address operand may name.  It is the program's
\* value and not the scaled MAX_VALUE: what is scaled down is how many
\* instructions fill program space, not which addresses a statement may name.
ADDRESS_MAX == 4095

Address_new(num) ==
    IF u32_gt(num, ADDRESS_MAX)
    THEN Err(AssemblyError("Address " \o u32_to_string(num) \o " out of range, expected 0-"
                           \o ToString(ADDRESS_MAX)))
    ELSE Ok(u32_low(num))

\* Immediate::new, of an index: the value is kept
Immediate_new(value) == value

\* Immediate::new_signed: the value as an 8-bit pattern
Immediate_new_signed(value) == value % 256

CHARACTERS == <<" ", "A", "B", "C", "D", "E", "F", "G", "H", "I", "J", "K", "L", "M",
                "N", "O", "P", "Q", "R", "S", "T", "U", "V", "W", "X", "Y", "Z",
                ".", "!", "?">>

\* CHARACTERS.iter().collect::<String>()
RECURSIVE join_chars(_)
join_chars(chars) == IF Len(chars) = 0 THEN "" ELSE Head(chars) \o join_chars(Tail(chars))

(***************************************************************************)
(* Operand parsers.  l is self.line.                                       *)
(***************************************************************************)
\* a component constructor's result: its error is given the line
with_line(made, l) ==
    IF made.tag = "Ok" THEN made ELSE Err(from_assembly_error_line(made.err, l))

register_parsed(digits, parsed, l) ==
    IF parsed.tag = "Ok" THEN with_line(Register_new(parsed.val), l)
    ELSE Err(AssemblerError_new_line(
             "Failed to parse register \"" \o digits \o "\": " \o parsed.err, l))

get_register(register, l) ==
    IF ~starts_with(register, "r")
    THEN Err(AssemblerError_new_line(
             "Register \"" \o register \o "\" must start with a lowercase 'r'", l))
    ELSE register_parsed(Tail(register), u32_from_str_radix(Tail(register), 10), l)

\* CHARACTERS.iter().position(): the 0-based index of the character, -1 for None
position(char) ==
    LET hits == {i \in 1..Len(CHARACTERS) : CHARACTERS[i] = char} IN
    IF hits = {} THEN -1 ELSE (CHOOSE i \in hits : \A j \in hits : i <= j) - 1

\* the quoted character, between the two quotes
character_immediate(inner, l) ==
    IF Len(inner) # 1
    THEN Err(AssemblerError_new_line(
             "Immediate \"" \o inner \o "\" must only contain a single character", l))
    ELSE IF position(inner) >= 0 THEN Ok(Immediate_new(position(inner)))
    ELSE Err(AssemblerError_new_line(
             "Character \"" \o inner \o "\" is not supported, you can only use ones in \""
             \o join_chars(CHARACTERS) \o "\"", l))

immediate_parsed(immediate, parsed, l) ==
    IF parsed.tag = "Ok" THEN Ok(Immediate_new_signed(parsed.val))
    ELSE Err(AssemblerError_new_line(
             "Failed to parse immediate \"" \o immediate \o "\": " \o parsed.err, l))

get_immediate(immediate, l) ==
    IF starts_with(immediate, "'")
    THEN IF ~ends_with(immediate, "'")
         THEN Err(AssemblerError_new_line(
                  "Immediate \"" \o immediate \o "\" must end with ''", l))
         \* &immediate[1..immediate.len() - 1]: a slice that starts after its end panics
         ELSE IF 1 > Len(immediate) - 1 THEN Panic
         ELSE character_immediate(SubSeq(immediate, 2, Len(immediate) - 1), l)
    ELSE immediate_parsed(immediate, parse_i32(immediate), l)

\* -(num as i32): negating i32::MIN overflows; it panics in a build with
\* overflow checks and wraps to i32::MIN in one without
negate_i32(value, overflow_checks) ==
    IF value = I32_MIN THEN (IF overflow_checks THEN Panic ELSE Ok(I32_MIN))
    ELSE Ok(0 - value)

\* Location::Offset(Offset::new(num)?): the constructor's error leaves as it is
offset_location(made) == IF made.tag = "Ok" THEN Ok(<<"Offset", made.val>>) ELSE made

relative_num(num) == IF num.tag = "Panic" THEN Panic ELSE offset_location(Offset_new(num.val))

relative_parsed(location, add, parsed, l, overflow_checks) ==
    IF parsed.tag = "Ok"
    THEN relative_num(IF add THEN Ok(u32_as_i32(parsed.val))
                      ELSE negate_i32(u32_as_i32(parsed.val), overflow_checks))
    ELSE Err(AssemblerError_new_line(
             "Failed to parse address offset \"" \o location \o "\": " \o parsed.err, l))

address_location(made) == IF made.tag = "Ok" THEN Ok(<<"Address", made.val>>) ELSE made

absolute_parsed(location, parsed, l) ==
    IF parsed.tag = "Ok" THEN address_location(with_line(Address_new(parsed.val), l))
    ELSE Ok(<<"Label", location>>)

get_location(location, l, overflow_checks) ==
    IF starts_with(location, "+") \/ starts_with(location, "-")
    THEN relative_parsed(location, starts_with(location, "+"),
                         parse_u32(Tail(location)), l, overflow_checks)
    ELSE absolute_parsed(location, parse_u32(location), l)

get_condition(condition, l) ==
    IF condition \in {"zero", "notzero", "carry", "notcarry"} THEN Ok(condition)
    ELSE Err(AssemblerError_new_line("Unknown condition: \"" \o condition \o "\"", l))

offset_parsed(offset, parsed, l) ==
    IF parsed.tag = "Ok" THEN with_line(Offset_new(parsed.val), l)
    ELSE Err(AssemblerError_new_line(
             "Failed to parse offset \"" \o offset \o "\": " \o parsed.err, l))

get_offset(offset, l) == offset_parsed(offset, parse_i32(offset), l)

(***************************************************************************)
(* Arity.                                                                  *)
(***************************************************************************)
RECURSIVE join(_, _)
join(items, sep) ==
    IF Len(items) = 0 THEN ""
    ELSE IF Len(items) = 1 THEN items[1]
    ELSE items[1] \o sep \o join(Tail(items), sep)

join_with_and(items) ==
    IF Len(items) = 0 THEN ""
    ELSE IF Len(items) = 1 THEN items[1]
    ELSE join(SubSeq(items, 1, Len(items) - 1), ", ") \o " and " \o items[Len(items)]

\* check_arguments refusing only a statement with too few operands
check_arguments_at_least(args_len, expected, l) ==
    LET actual_len == args_len - 1 IN
    IF actual_len < Len(expected)
    THEN Err(AssemblerError_new_line(
             "Expected "
             \o (IF Len(expected) = 0 THEN "no arguments"
                 ELSE join_with_and(expected) \o " (" \o ToString(Len(expected)) \o " argument"
                      \o (IF Len(expected) = 1 THEN "" ELSE "s") \o ")")
             \o ", got " \o ToString(actual_len) \o " instead", l))
    ELSE Ok(TRUE)

check_arguments(args_len, expected, l) ==
    LET actual_len == args_len - 1 IN
    IF actual_len # Len(expected)
    THEN Err(AssemblerError_new_line(
             "Expected "
             \o (IF Len(expected) = 0 THEN "no arguments"
                 ELSE join_with_and(expected) \o " (" \o ToString(Len(expected)) \o " argument"
                      \o (IF Len(expected) = 1 THEN "" ELSE "s") \o ")")
             \o ", got " \o ToString(actual_len) \o " instead", l))
    ELSE Ok(TRUE)

(***************************************************************************)
(* Pass 1: one statement fragment.                                         *)
(***************************************************************************)
EmptyMap == [k \in {} |-> ""]

insert(map, key, value) ==
    [k \in DOMAIN map \cup {key} |-> IF k = key THEN value ELSE map[k]]

\* the expected operands of each mnemonic, as given to check_arguments
Expected ==
    [nop |-> <<>>, hlt |-> <<>>, ret |-> <<>>,
     add |-> <<"RegA", "RegB", "RegC">>, sub |-> <<"RegA", "RegB", "RegC">>,
     nor |-> <<"RegA", "RegB", "RegC">>, and |-> <<"RegA", "RegB", "RegC">>,
     xor |-> <<"RegA", "RegB", "RegC">>,
     rsh |-> <<"RegA", "RegC">>,
     ldi |-> <<"RegA", "Immediate">>, adi |-> <<"RegA", "Immediate">>,
     jmp |-> <<"Label/Address">>, brh |-> <<"Condition", "Label/Address">>,
     cal |-> <<"Label/Address">>,
     lod |-> <<"RegA", "RegB", "Offset">>, str |-> <<"RegA", "RegB", "Offset">>,
     cmp |-> <<"RegA", "RegB">>, mov |-> <<"RegA", "RegC">>, lsh |-> <<"RegA", "RegC">>,
     inc |-> <<"RegA">>, dec |-> <<"RegA">>,
     not |-> <<"RegA", "RegC">>, neg |-> <<"RegA", "RegC">>]

\* the operand parser each argument of a mnemonic goes through, left to right
Parsers ==
    [nop |-> <<>>, hlt |-> <<>>, ret |-> <<>>,
     add |-> <<"register", "register", "register">>,
     sub |-> <<"register", "register", "register">>,
     nor |-> <<"register", "register", "register">>,
     and |-> <<"register", "register", "register">>,
     xor |-> <<"register", "register", "register">>,
     rsh |-> <<"register", "register">>,
     ldi |-> <<"register", "immediate">>, adi |-> <<"register", "immediate">>,
     jmp |-> <<"location">>, brh |-> <<"condition", "location">>, cal |-> <<"location">>,
     lod |-> <<"register", "register", "offset">>,
     str |-> <<"register", "register", "offset">>,
     cmp |-> <<"register", "register">>, mov |-> <<"register", "register">>,
     lsh |-> <<"register", "register">>,
     inc |-> <<"register">>, dec |-> <<"register">>,
     not |-> <<"register", "register">>, neg |-> <<"register", "register">>]

get_operand(kind, token, l, overflow_checks) ==
    CASE kind = "register" -> get_register(token, l)
      [] kind = "immediate" -> get_immediate(token, l)
      [] kind = "location" -> get_location(token, l, overflow_checks)
      [] kind = "condition" -> get_condition(token, l)
      [] kind = "offset" -> get_offset(token, l)

\* the operands args[2..] parsed in order; the first failure is the result (`?`)
RECURSIVE get_operands(_, _, _, _, _)
RECURSIVE operand_parsed(_, _, _, _, _, _)
operand_parsed(kinds, args, done, l, overflow_checks, r) ==
    IF r.tag = "Ok" THEN get_operands(kinds, args, Append(done, r.val), l, overflow_checks)
    ELSE r

get_operands(kinds, args, done, l, overflow_checks) ==
    IF Len(done) = Len(kinds) THEN Ok(done)
    ELSE operand_parsed(kinds, args, done, l, overflow_checks,
                        get_operand(kinds[Len(done) + 1], args[Len(done) + 2], l,
                                    overflow_checks))

\* build with the source of `mov` in the place of the second operand
build_mov_operands_swapped(name, v) ==
    CASE name = "nop" -> <<"NoOperation">>
      [] name = "hlt" -> <<"Halt">>
      [] name = "add" -> <<"Addition", v[1], v[2], v[3]>>
      [] name = "sub" -> <<"Subtraction", v[1], v[2], v[3]>>
      [] name = "nor" -> <<"BitwiseNOR", v[1], v[2], v[3]>>
      [] name = "and" -> <<"BitwiseAND", v[1], v[2], v[3]>>
      [] name = "xor" -> <<"BitwiseXOR", v[1], v[2], v[3]>>
      [] name = "rsh" -> <<"RightShift", v[1], v[2]>>
      [] name = "ldi" -> <<"LoadImmediate", v[1], v[2]>>
      [] name = "adi" -> <<"AddImmediate", v[1], v[2]>>
      [] name = "jmp" -> <<"Jump", v[1]>>
      [] name = "brh" -> <<"Branch", v[1], v[2]>>
      [] name = "cal" -> <<"Call", v[1]>>
      [] name = "ret" -> <<"Return">>
      [] name = "lod" -> <<"MemoryLoad", v[1], v[2], v[3]>>
      [] name = "str" -> <<"MemoryStore", v[1], v[2], v[3]>>
      [] name = "cmp" -> <<"Subtraction", v[1], v[2], 0>>
      [] name = "mov" -> <<"Addition", 0, v[1], v[2]>>
      [] name = "lsh" -> <<"Addition", v[1], v[1], v[2]>>
      [] name = "inc" -> <<"AddImmediate", v[1], Immediate_new(1)>>
      [] name = "dec" -> <<"AddImmediate", v[1], Immediate_new_signed(-1)>>
      [] name = "not" -> <<"BitwiseNOR", v[1], 0, v[2]>>
      [] name = "neg" -> <<"Subtraction", 0, v[1], v[2]>>

\* the Instruction a mnemonic builds from its parsed operands
build(name, v) ==
    CASE name = "nop" -> <<"NoOperation">>
      [] name = "hlt" -> <<"Halt">>
      [] name = "add" -> <<"Addition", v[1], v[2], v[3]>>
      [] name = "sub" -> <<"Subtraction", v[1], v[2], v[3]>>
      [] name = "nor" -> <<"BitwiseNOR", v[1], v[2], v[3]>>
      [] name = "and" -> <<"BitwiseAND", v[1], v[2], v[3]>>
      [] name = "xor" -> <<"BitwiseXOR", v[1], v[2], v[3]>>
      [] name = "rsh" -> <<"RightShift", v[1], v[2]>>
      [] name = "ldi" -> <<"LoadImmediate", v[1], v[2]>>
      [] name = "adi" -> <<"AddImmediate", v[1], v[2]>>
      [] name = "jmp" -> <<"Jump", v[1]>>
      [] name = "brh" -> <<"Branch", v[1], v[2]>>
      [] name = "cal" -> <<"Call", v[1]>>
      [] name = "ret" -> <<"Return">>
      [] name = "lod" -> <<"MemoryLoad", v[1], v[2], v[3]>>
      [] name = "str" -> <<"MemoryStore", v[1], v[2], v[3]>>
      [] name = "cmp" -> <<"Subtraction", v[1], v[2], 0>>
      [] name = "mov" -> <<"Addition", v[1], 0, v[2]>>
      [] name = "lsh" -> <<"Addition", v[1], v[1], v[2]>>
      [] name = "inc" -> <<"AddImmediate", v[1], Immediate_new(1)>>
      [] name = "dec" -> <<"AddImmediate", v[1], Immediate_new_signed(-1)>>
      [] name = "not" -> <<"BitwiseNOR", v[1], 0, v[2]>>
      [] name = "neg" -> <<"Subtraction", 0, v[1], v[2]>>

\* the define loop stopping one token early
substitute_but_last(args, defs) ==
    [i \in 1..Len(args) |->
        IF i < Len(args) /\ args[i] \in DOMAIN defs THEN defs[args[i]] ELSE args[i]]

\* the define loop looking the replacement up once more
substitute_nested(args, defs) ==
    [i \in 1..Len(args) |->
        IF args[i] \in DOMAIN defs
        THEN (IF defs[args[i]] \in DOMAIN defs THEN defs[defs[args[i]]] ELSE defs[args[i]])
        ELSE args[i]]

\* the define loop: every token that is a define name becomes its replacement
substitute(args, defs) ==
    [i \in 1..Len(args) |-> IF args[i] \in DOMAIN defs THEN defs[args[i]] ELSE args[i]]

\* the outcome of parse_piece: what it returns and the two tables after it
Outcome(res, labs, defs) == [res |-> res, labels |-> labs, defines |-> defs]

\* label_checked without the contains_key test: a second definition rebinds
label_checked_rebinding(arity, label_name, labs, defs, len, l) ==
    IF arity.tag = "Err" THEN Outcome(arity, labs, defs)
    ELSE Outcome(Ok(None), insert(labs, label_name, Immediate_new(len)), defs)

\* the label branch, after its arity check; len is self.instructions.len()
label_checked(arity, label_name, labs, defs, len, l) ==
    IF arity.tag = "Err" THEN Outcome(arity, labs, defs)
    ELSE IF label_name \in DOMAIN labs
    THEN Outcome(Err(AssemblerError_new_line(
                     "Label \"" \o label_name \o "\" was already defined", l)), labs, defs)
    ELSE Outcome(Ok(None), insert(labs, label_name, Immediate_new(len)), defs)

define_label(args, labs, defs, len, l) ==
    label_checked(check_arguments(Len(args), <<>>, l),
                  SubSeq(args[1], 1, Len(args[1]) - 1), labs, defs, len, l)

\* define_checked without the contains_key test: a second #define rebinds
define_checked_rebinding(arity, args, labs, defs, l) ==
    IF arity.tag = "Err" THEN Outcome(arity, labs, defs)
    ELSE Outcome(Ok(None), labs, insert(defs, args[2], args[3]))

\* the #define branch, after its arity check
define_checked(arity, args, labs, defs, l) ==
    IF arity.tag = "Err" THEN Outcome(arity, labs, defs)
    ELSE IF args[2] \in DOMAIN defs
    THEN Outcome(Err(AssemblerError_new_line(
                     "Definition of \"" \o args[2] \o "\" already exists", l)), labs, defs)
    ELSE Outcome(Ok(None), labs, insert(defs, args[2], args[3]))

define_define(args, labs, defs, l) ==
    define_checked(check_arguments(Len(args), <<"Name", "Value">>, l), args, labs, defs, l)

\* an arm of the mnemonic match: the arity check, the operands, the variant
built(name, operands) ==
    IF operands.tag = "Ok" THEN Ok(Some(build(name, operands.val))) ELSE operands

instruction_checked(arity, name, args, l, overflow_checks) ==
    IF arity.tag = "Err" THEN arity
    ELSE built(name, get_operands(Parsers[name], args, <<>>, l, overflow_checks))

\* the mnemonic match, on the arguments after substitution
parse_instruction(name, args, l, overflow_checks) ==
    IF name \notin DOMAIN Expected
    THEN Err(AssemblerError_new_line("Unknown opcode: " \o name, l))
    ELSE instruction_checked(check_arguments(Len(args), Expected[name], l),
                             name, args, l, overflow_checks)

\* parse_piece on the whitespace-separated tokens of the piece
parse_args(args, labs, defs, len, l, overflow_checks) ==
    IF ends_with(args[1], ":") THEN define_label(args, labs, defs, len, l)
    ELSE IF args[1] = "#define" THEN define_define(args, labs, defs, l)
    ELSE Outcome(parse_instruction(args[1], substitute(args, defs), l, overflow_checks),
                 labs, defs)

parse_piece(piece, labs, defs, len, l, overflow_checks) ==
    parse_args(split_whitespace(piece), labs, defs, len, l, overflow_checks)

(***************************************************************************)
(* Pass 1: one physical line.                                              *)
(***************************************************************************)
\* the comment cut and the trim at the head of parse_line
cut_comment(text, comment_index) ==
    IF comment_index # 0 THEN SubSeq(text, 1, comment_index - 1) ELSE text

strip(text) == trim(cut_comment(text, find(text, "//")))

\* the pieces of a stripped line: split(';') with every piece trimmed
trim_all(parts) == [i \in 1..Len(parts) |-> trim(parts[i])]

pieces_of(text) == trim_all(split(text, ";"))

\* the local state of parse_line's loop: its two vectors, the two tables of
\* the assembler, whether a piece has panicked, and the history of the pieces
LineState(errs, insts, labs, defs, panicked, hist) ==
    [errors |-> errs, instructions |-> insts, labels |-> labs, defines |-> defs,
     panicked |-> panicked, trace |-> hist]

\* the history record of one piece: its line, its text and how it ended
Handled(l, piece, tag, emitted) ==
    [line |-> l, piece |-> piece, tag |-> tag, emitted |-> emitted]

\* piece_parsed keeping only the first error of a line
piece_parsed_first_error(st, piece, l, out) ==
    CASE out.res.tag = "Panic" ->
            LineState(st.errors, st.instructions, st.labels, st.defines, TRUE, st.trace)
      [] out.res.tag = "Err" ->
            LineState(IF st.errors = <<>> THEN <<out.res.err>> ELSE st.errors,
                      st.instructions, out.labels, out.defines, FALSE,
                      Append(st.trace, Handled(l, piece, "Err", FALSE)))
      [] out.res.tag = "Ok" ->
            LineState(st.errors,
                      IF out.res.val # None
                      THEN Append(st.instructions, <<out.res.val[1], l>>)
                      ELSE st.instructions,
                      out.labels, out.defines, FALSE,
                      Append(st.trace, Handled(l, piece, "Ok", out.res.val # None)))

\* the match on what parse_piece returned
piece_parsed(st, piece, l, out) ==
    CASE out.res.tag = "Panic" ->
            LineState(st.errors, st.instructions, st.labels, st.defines, TRUE, st.trace)
      [] out.res.tag = "Err" ->
            LineState(Append(st.errors, out.res.err), st.instructions,
                      out.labels, out.defines, FALSE,
                      Append(st.trace, Handled(l, piece, "Err", FALSE)))
      [] out.res.tag = "Ok" ->
            LineState(st.errors,
                      IF out.res.val # None
                      THEN Append(st.instructions, <<out.res.val[1], l>>)
                      ELSE st.instructions,
                      out.labels, out.defines, FALSE,
                      Append(st.trace, Handled(l, piece, "Ok", out.res.val # None)))

\* one iteration of the loop over the pieces; len is self.instructions.len()
parse_line_step(st, piece, len, l, overflow_checks) ==
    IF piece = ""
    THEN LineState(Append(st.errors, AssemblerError_new_line("Useless semicolon", l)),
                   st.instructions, st.labels, st.defines, FALSE,
                   Append(st.trace, Handled(l, piece, "Err", FALSE)))
    ELSE piece_parsed(st, piece, l,
                      parse_piece(piece, st.labels, st.defines, len, l, overflow_checks))

\* the loop over the pieces leaving at an empty piece instead of continuing
RECURSIVE parse_line_loop_until_empty(_, _, _, _, _)
parse_line_loop_until_empty(st, pieces, len, l, overflow_checks) ==
    IF Len(pieces) = 0 \/ st.panicked THEN st
    ELSE IF Head(pieces) = "" THEN parse_line_step(st, "", len, l, overflow_checks)
    ELSE parse_line_loop_until_empty(
             parse_line_step(st, Head(pieces), len, l, overflow_checks),
             Tail(pieces), len, l, overflow_checks)

RECURSIVE parse_line_loop(_, _, _, _, _)
parse_line_loop(st, pieces, len, l, overflow_checks) ==
    IF Len(pieces) = 0 \/ st.panicked THEN st
    ELSE parse_line_loop(parse_line_step(st, Head(pieces), len, l, overflow_checks),
                         Tail(pieces), len, l, overflow_checks)

\* parse_line returning the instructions it has, when it has some, despite errors
line_result_partial(st) ==
    [res |-> IF st.panicked THEN Panic
             ELSE IF st.errors # <<>> /\ st.instructions = <<>> THEN Err(st.errors)
             ELSE Ok(st.instructions),
     labels |-> st.labels, defines |-> st.defines, trace |-> st.trace]

\* what parse_line returns once its loop has ended in st
line_result(st) ==
    [res |-> IF st.panicked THEN Panic
             ELSE IF st.errors # <<>> THEN Err(st.errors)
             ELSE Ok(st.instructions),
     labels |-> st.labels, defines |-> st.defines, trace |-> st.trace]

parse_stripped(stripped, labs, defs, len, l, overflow_checks, hist) ==
    IF stripped = "" THEN [res |-> Ok(<<>>), labels |-> labs, defines |-> defs, trace |-> hist]
    ELSE line_result(parse_line_loop(LineState(<<>>, <<>>, labs, defs, FALSE, hist),
                                     pieces_of(stripped), len, l, overflow_checks))

\* parse_line: res is Ok(instructions), Err(errors) or Panic; labels, defines
\* and trace are the tables and the history after the line
parse_line(text, labs, defs, len, l, overflow_checks, hist) ==
    parse_stripped(strip(text), labs, defs, len, l, overflow_checks, hist)

(***************************************************************************)
(* Pass 2: Instruction::binary.                                            *)
(***************************************************************************)
RECURSIVE BitOr(_, _)
BitOr(a, b) ==
    IF a = 0 THEN b
    ELSE IF b = 0 THEN a
    ELSE (IF a % 2 = 1 \/ b % 2 = 1 THEN 1 ELSE 0) + 2 * BitOr(a \div 2, b \div 2)

RECURSIVE BitAnd(_, _)
BitAnd(a, b) ==
    IF a = 0 \/ b = 0 THEN 0
    ELSE (IF a % 2 = 1 /\ b % 2 = 1 THEN 1 ELSE 0) + 2 * BitAnd(a \div 2, b \div 2)

\* `value as u16` of an integer: its low 16 bits
as_u16(value) == value % 2^16

\* the field as it would be without the mask
field_unmasked(value, mask, shift) == (as_u16(value) * 2^shift) % 2^16

\* (value as u16 & mask) << shift, within 16 bits
field(value, mask, shift) == (BitAnd(as_u16(value), mask) * 2^shift) % 2^16

\* binary |= a; binary |= b; binary |= c
or3(binary, a, b, c) == BitOr(BitOr(BitOr(binary, a), b), c)

index(instruction) ==
    CASE instruction[1] = "NoOperation" -> 0
      [] instruction[1] = "Halt" -> 1
      [] instruction[1] = "Addition" -> 2
      [] instruction[1] = "Subtraction" -> 3
      [] instruction[1] = "BitwiseNOR" -> 4
      [] instruction[1] = "BitwiseAND" -> 5
      [] instruction[1] = "BitwiseXOR" -> 6
      [] instruction[1] = "RightShift" -> 7
      [] instruction[1] = "LoadImmediate" -> 8
      [] instruction[1] = "AddImmediate" -> 9
      [] instruction[1] = "Jump" -> 10
      [] instruction[1] = "Branch" -> 11
      [] instruction[1] = "Call" -> 12
      [] instruction[1] = "Return" -> 13
      [] instruction[1] = "MemoryLoad" -> 14
      [] instruction[1] = "MemoryStore" -> 15

condition_index(condition) ==
    CASE condition = "zero" -> 0
      [] condition = "notzero" -> 1
      [] condition = "carry" -> 2
      [] condition = "notcarry" -> 3

\* get_address as a single pass would resolve it: a label defined at or after
\* the referencing instruction is not known yet and reads as address 0
get_address_single_pass(location, address, labs) ==
    CASE location[1] = "Address" -> Ok(location[2])
      [] location[1] = "Offset" -> Ok(address + location[2])
      [] location[1] = "Label" ->
            IF location[2] \in DOMAIN labs
            THEN Ok(IF labs[location[2]] <= address THEN labs[location[2]] ELSE 0)
            ELSE Err(AssemblyError("Unknown label \"" \o location[2] \o "\""))

\* Location::get_address; address is the position of the instruction itself
get_address(location, address, labs) ==
    CASE location[1] = "Address" -> Ok(location[2])
      [] location[1] = "Offset" -> Ok(address + location[2])
      [] location[1] = "Label" ->
            IF location[2] \in DOMAIN labs THEN Ok(labs[location[2]])
            ELSE Err(AssemblyError("Unknown label \"" \o location[2] \o "\""))

\* the word of an instruction with a location, once the location is resolved (`?`)
located(binary, target) ==
    IF target.tag = "Ok" THEN Ok(BitOr(binary, field(target.val, 1023, 0))) ELSE target

binary(instruction, address, labs) ==
    CASE instruction[1] \in {"Addition", "Subtraction", "BitwiseNOR", "BitwiseAND",
                             "BitwiseXOR", "MemoryLoad", "MemoryStore"} ->
            Ok(or3(field(index(instruction), 15, 12), field(instruction[2], 15, 8),
                   field(instruction[3], 15, 4), field(instruction[4], 15, 0)))
      [] instruction[1] = "RightShift" ->
            Ok(or3(field(index(instruction), 15, 12), field(instruction[2], 15, 8),
                   field(instruction[3], 15, 0), 0))
      [] instruction[1] \in {"LoadImmediate", "AddImmediate"} ->
            Ok(or3(field(index(instruction), 15, 12), field(instruction[2], 15, 8),
                   field(instruction[3], 255, 0), 0))
      [] instruction[1] \in {"Jump", "Call"} ->
            located(field(index(instruction), 15, 12),
                    get_address(instruction[2], address, labs))
      [] instruction[1] = "Branch" ->
            located(BitOr(field(index(instruction), 15, 12),
                          field(condition_index(instruction[2]), 3, 10)),
                    get_address(instruction[3], address, labs))
      [] OTHER -> Ok(field(index(instruction), 15, 12))

\* the closure of assemble's map, for the instruction at `address`: the word
\* (0 on an error) and the errors it pushes, with the line recorded in pass 1
encoded(r, l) ==
    IF r.tag = "Ok" THEN [word |-> r.val, errors |-> <<>>]
    ELSE [word |-> 0, errors |-> <<from_assembly_error_line(r.err, l)>>]

\* encode giving an error the instruction's position + 1 instead of its line
encode_position(insts, labs, address) ==
    encoded(binary(insts[address + 1][1], address, labs), address + 1)

encode(insts, labs, address) ==
    encoded(binary(insts[address + 1][1], address, labs), insts[address + 1][2])

RECURSIVE assemble_errors(_, _, _)
assemble_errors(insts, labs, address) ==
    IF address = Len(insts) THEN <<>>
    ELSE encode(insts, labs, address).errors \o assemble_errors(insts, labs, address + 1)

assemble_words(insts, labs) ==
    [i \in 1..Len(insts) |-> encode(insts, labs, i - 1).word]

assemble_return(errs, insts, labs) ==
    IF errs # <<>> THEN Err(errs) ELSE Ok(assemble_words(insts, labs))

assemble(insts, labs) == assemble_return(assemble_errors(insts, labs, 0), insts, labs)

(***************************************************************************)
(* The assembler as a state machine.                                       *)
(***************************************************************************)
\* the table Assembler::new seeds when config.default_defines is set
DefaultDefines ==
    [SCR_PIX_X |-> "240", SCR_PIX_Y |-> "241", SCR_DRAW_PIX |-> "242",
     SCR_CLR_PIX |-> "243", SCR_GET_PIX |-> "244", SCR_PUSH |-> "245",
     SCR_CLR |-> "246", CHAR_DISP_PUSH |-> "247", CHAR_DISP_DRAW |-> "248",
     CHAR_DISP_CLR |-> "249", NUM_DISP_SHOW |-> "250", NUM_DISP_CLR |-> "251",
     NUM_DISP_SIGNED |-> "252", NUM_DISP_UNSIGNED |-> "253", RNG |-> "254",
     CONTROLLER |-> "255"]

\* the physical lines an input is made of
Lines ==
    {"nop; L:; hlt",
     "jmp L; cal +1",
     "L:",
     "brh zero M // undefined",
     "#define PORT 254",
     "#define 254 7; #define PORT 7",
     "ldi r1 PORT",
     "#define RNG 1",
     "ldi r2 RNG",
     "foo; nop; add r1",
     "hlt;",
     "ldi r1 '",
     "jmp -2147483648",
     ":",
     ""}

\* the lines of all parse calls so far
RECURSIVE TotalLines(_)
TotalLines(calls) ==
    IF Len(calls) = 0 THEN 0 ELSE Len(Head(calls)) + TotalLines(Tail(calls))

\* lines fed so far, a parse call after the first counting as one
Used == TotalLines(input) + (IF Len(input) > 0 THEN Len(input) - 1 ELSE 0)

Init ==
    /\ config \in [default_defines : BOOLEAN, overflow_checks : BOOLEAN]
    /\ instructions = <<>>
    /\ labels = EmptyMap
    /\ defines = IF config.default_defines THEN DefaultDefines ELSE EmptyMap
    /\ line = 0
    /\ pc = "idle"
    /\ input = <<>>
    /\ errors = <<>>
    /\ result = [op |-> "none"]
    /\ trace = <<>>
    /\ parseFailed = FALSE

\* parse as it would be if it started from an empty program
ParseStart_fresh ==
    /\ pc = "idle"
    /\ input = <<>> \/ Used < MaxLines
    /\ pc' = "parsing"
    /\ input' = Append(input, <<>>)
    /\ trace' = Append(trace, <<>>)
    /\ errors' = <<>>
    /\ instructions' = <<>>
    /\ UNCHANGED <<config, labels, defines, line, result, parseFailed>>

\* parse is entered: its error vector is empty
ParseStart ==
    /\ pc = "idle"
    /\ input = <<>> \/ Used < MaxLines
    /\ pc' = "parsing"
    /\ input' = Append(input, <<>>)
    /\ trace' = Append(trace, <<>>)
    /\ errors' = <<>>
    /\ UNCHANGED <<config, instructions, labels, defines, line, result, parseFailed>>

\* the match on what parse_line returned for the line numbered l
line_parsed(text, l, out) ==
    /\ line' = l
    /\ input' = [input EXCEPT ![Len(input)] = Append(@, text)]
    /\ labels' = out.labels
    /\ defines' = out.defines
    /\ trace' = [trace EXCEPT ![Len(trace)] = out.trace]
    /\ pc' = IF out.res.tag = "Panic" THEN "panicked" ELSE "parsing"
    /\ instructions' = IF out.res.tag = "Ok" THEN instructions \o out.res.val
                       ELSE instructions
    /\ errors' = IF out.res.tag = "Err" THEN errors \o out.res.err ELSE errors

\* parse_iteration numbering only the lines that hold a statement
parse_iteration_unnumbered_blank(text, i) ==
    line_parsed(text, IF strip(text) = "" THEN line ELSE line + 1,
                parse_line(text, labels, defines, Len(instructions),
                           IF strip(text) = "" THEN line ELSE line + 1,
                           config.overflow_checks, trace[Len(trace)]))

\* one iteration of parse's loop over input.lines().enumerate()
parse_iteration(text, i) ==
    line_parsed(text, i + 1,
                parse_line(text, labels, defines, Len(instructions), i + 1,
                           config.overflow_checks, trace[Len(trace)]))

ParseLine ==
    /\ pc = "parsing"
    /\ Used < MaxLines
    /\ \E text \in Lines : parse_iteration(text, Len(input[Len(input)]))
    /\ UNCHANGED <<config, result, parseFailed>>

\* what parse returns after the loop, for the instruction count len
parse_return(errs, len) ==
    IF len > MAX_VALUE
    THEN Err(Append(errs, AssemblerError_new(
                 "Program reached maximum size (" \o ToString(MAX_POSSIBLE_COUNT)
                 \o " instructions)")))
    ELSE IF errs # <<>> THEN Err(errs)
    ELSE Ok(TRUE)

parse_returned(ret) ==
    /\ result' = [op |-> "parse", ret |-> ret]
    /\ parseFailed' = (parseFailed \/ ret.tag = "Err")

\* the input has no more lines: the capacity check, and parse returns
ParseEnd ==
    /\ pc = "parsing"
    /\ parse_returned(parse_return(errors, Len(instructions)))
    /\ pc' = "idle"
    /\ UNCHANGED <<config, instructions, labels, defines, line, input, errors, trace>>

\* assemble as it would be if it took the instructions out of the assembler
Assemble_draining ==
    /\ pc = "idle"
    /\ result' = [op |-> "assemble", ret |-> assemble(instructions, labels)]
    /\ instructions' = <<>>
    /\ UNCHANGED <<config, labels, defines, line, pc, input, errors, trace, parseFailed>>

\* a call of assemble, which takes &self
Assemble ==
    /\ pc = "idle"
    /\ result' = [op |-> "assemble", ret |-> assemble(instructions, labels)]
    /\ UNCHANGED <<config, instructions, labels, defines, line, pc, input, errors,
                   trace, parseFailed>>

Next == ParseStart \/ ParseLine \/ ParseEnd \/ Assemble

Spec == Init /\ [][Next]_vars

(***************************************************************************)
(* The assembler on programs of one statement line, after at most          *)
(* MaxPreludeLines lines without a statement, and written to a file.       *)
(***************************************************************************)
MaxPreludeLines == 1

\* the digits of n >= 0 in a radix
RECURSIVE Numeral(_, _)
Numeral(n, radix) ==
    IF n < radix THEN Digits[n + 1]
    ELSE Numeral(n \div radix, radix) \o Digits[(n % radix) + 1]

\* the digits with a `_` between every two of them
Separated(digits) == join([i \in 1..Len(digits) |-> CharAt(digits, i)], "_")

\* a spelling of the integer n: sign, radix prefix, digits
Spelling(n, prefix, radix, separated) ==
    (IF n < 0 THEN "-" ELSE "") \o prefix
    \o (IF separated THEN Separated(Numeral(IF n < 0 THEN 0 - n ELSE n, radix))
        ELSE Numeral(IF n < 0 THEN 0 - n ELSE n, radix))

Spellings(n) ==
    {Spelling(n, form[1], form[2], separated) :
        form \in {<<"", 10>>, <<"0x", 16>>, <<"0b", 2>>}, separated \in BOOLEAN}

\* the immediate's range and one value past each end
ImmediateValues == (0 - 129)..256

ImmediateStatements == {"ldi r1 " \o spelling : spelling \in UNION {Spellings(n) : n \in ImmediateValues}}

\* immediates with the sign after the radix prefix, as from_str_radix reads it
PrefixedSignStatements == {"ldi r1 0x-80", "ldi r1 0b-1", "ldi r1 0x+7f", "ldi r1 +5"}

\* quoted characters: those of the table, and others
QuotedCharacters ==
    {CHARACTERS[i] : i \in 1..Len(CHARACTERS)} \union {"a", "z", "0", "#", "'", "AB", ""}

CharacterStatements == {"ldi r1 '" \o c \o "'" : c \in QuotedCharacters} \union {"ldi r1 'A"}

RegisterTokens ==
    {"r" \o ToString(n) : n \in 0..17}
    \union {"rX", "r", "R1", "x1", "1", "r+5", "r-1", "r1_0", "r007", "r0x5", "r255",
            "r4294967295", "r4294967296", "r1r"}

RegisterStatements == {"ldi " \o token \o " 0" : token \in RegisterTokens}

RegisterNames == {"r" \o ToString(n) : n \in 0..15}

SugarStatements ==
    {name \o " " \o a \o " " \o b : name \in {"cmp", "mov", "lsh", "not", "neg"},
                                  a \in RegisterNames, b \in RegisterNames}
    \union {name \o " " \o a : name \in {"inc", "dec"}, a \in RegisterNames}

NoOperandStatements ==
    {"nop", "hlt", "nop r1", "hlt 5", "nop nop", "hlt r1 r2", "nop; nop; hlt", "hlt; nop",
     "ldi r1 5; nop; hlt; nop"}

\* a statement for every kind of pass-1 error
FaultyStatements ==
    {"add r1", "foo", "ldi x1 0", "ldi r16 0", "ldi rX 0", "ldi r1 abc", "ldi r1 'a'",
     "ldi r1 'AB'", "ldi r1 'A", "lod r1 r2 8", "lod r1 r2 x", "brh maybe 0",
     "jmp 4294967295", "jmp +8", "jmp -9", "jmp +x", "L:; L:", "#define A 1; #define A 2",
     "#define A", "L: 1", "nop; L:; #define A 1; foo"}

\* lines with empty fragments between or after semicolons
SemicolonStatements ==
    {"nop;", ";nop", "nop;;hlt", ";", "L:; ; #define A 1; foo", "; L:; L:", "foo; ; bar;",
     "#define A 1;; ldi r1 A", "nop ; ; M: ;"}

\* jmp, cal and brh with each condition
LocatedMnemonics == {"jmp", "cal", "brh zero", "brh notzero", "brh carry", "brh notcarry"}

\* addresses around the ends of program space and of the 10-bit field
AddressValues == {0, 1, 3, 512, 1023, 1024, 1025, 2048, 4095, 4096}

\* a jump, call or branch to an absolute address, or to a label of its line
AddressStatements ==
    {m \o " " \o ToString(n) : m \in LocatedMnemonics, n \in AddressValues}
    \union {"nop; L:; " \o m \o " L" : m \in LocatedMnemonics}

\* registers at the ends and inside the register file
EncodedRegisters == {"r0", "r9", "r15"}

\* one statement of every format but those of a location, with operands over
\* their domains, and the mnemonics without a register operand
EncodingStatements ==
    {m \o " " \o a \o " " \o b \o " " \o c :
        m \in {"add", "sub", "nor", "and", "xor"},
        a \in EncodedRegisters, b \in EncodedRegisters, c \in EncodedRegisters}
    \union {"rsh " \o a \o " " \o c : a \in EncodedRegisters, c \in EncodedRegisters}
    \union {m \o " " \o a \o " " \o b \o " " \o ToString(offset) :
                m \in {"lod", "str"}, a \in EncodedRegisters, b \in EncodedRegisters,
                offset \in (0 - 8)..7}
    \union {m \o " " \o a \o " " \o ToString(immediate) :
                m \in {"ldi", "adi"}, a \in EncodedRegisters,
                immediate \in {0 - 128, 0 - 127, 0 - 1, 0, 1, 127, 128, 255}}
    \union {"nop", "hlt", "ret", "jmp 0", "cal 0", "brh zero 0"}

\* statements around a define: used before and after the directive, a define
\* whose replacement is a define name, and defines named like a mnemonic or
\* a register
DefineStatements ==
    {"ldi r1 A; #define A 1", "#define A 1; ldi r1 A", "ldi r1 A; #define A 1; ldi r1 A",
     "#define A B; #define B 1; ldi r1 A", "#define B 1; #define A B; ldi r1 A",
     "#define B 1; ldi r1 B", "#define nop hlt; nop", "#define add sub; add r1 r2 r3",
     "#define r1 r2; add r1 r1 r1", "#define hlt r1; ldi hlt 5", "ldi r1 RNG",
     "#define L M; jmp L", "jmp L; #define L M"}

\* lines without a statement
Preludes == {"", "   ", "// only a comment", "  // indented comment"}

Statements ==
    ImmediateStatements \union PrefixedSignStatements \union CharacterStatements
    \union RegisterStatements \union SugarStatements \union NoOperandStatements
    \union FaultyStatements \union SemicolonStatements \union AddressStatements
    \union EncodingStatements \union DefineStatements

\* Assembler::new for a configuration that also says how the file is written
InitStatement ==
    /\ config \in [default_defines : BOOLEAN, overflow_checks : BOOLEAN,
                   text_output : BOOLEAN]
    /\ instructions = <<>>
    /\ labels = EmptyMap
    /\ defines = IF config.default_defines THEN DefaultDefines ELSE EmptyMap
    /\ line = 0
    /\ pc = "idle"
    /\ input = <<>>
    /\ errors = <<>>
    /\ result = [op |-> "none"]
    /\ trace = <<>>
    /\ parseFailed = FALSE

\* the one parse call of a run
StatementStart == input = <<>> /\ ParseStart

\* the lines parse may be given next, after the lines done: a statement line
\* ends the input, and a line without a statement may come before it
NextLines(done) ==
    IF \E k \in 1..Len(done) : done[k] \notin Preludes THEN {}
    ELSE (IF done = <<>> THEN Statements ELSE FaultyStatements)
         \union (IF Len(done) < MaxPreludeLines THEN Preludes ELSE {})

StatementLine ==
    /\ pc = "parsing"
    /\ \E text \in NextLines(input[Len(input)]) :
            parse_iteration(text, Len(input[Len(input)]))
    /\ UNCHANGED <<config, result, parseFailed>>

\* the two bytes of a word, low byte first
to_le_bytes(word) == <<word % 256, word \div 256>>

\* u16::to_be_bytes
to_be_bytes(word) == <<word \div 256, word % 256>>

\* format!("{:016b}", word).as_bytes(): 16 bytes, each the character 0 or 1
format_016b(word) == [i \in 1..16 |-> 48 + ((word \div 2^(16 - i)) % 2)]

\* the text-mode loop with a newline after every word, the last included
RECURSIVE text_output_newline_terminated(_, _)
text_output_newline_terminated(machine_code, i) ==
    IF i >= Len(machine_code) THEN <<>>
    ELSE format_016b(machine_code[i + 1]) \o <<10>>
         \o text_output_newline_terminated(machine_code, i + 1)

\* the text-mode loop from its iteration i on: the word, then a newline
\* unless the word is the last
RECURSIVE text_output(_, _)
text_output(machine_code, i) ==
    IF i >= Len(machine_code) THEN <<>>
    ELSE format_016b(machine_code[i + 1])
         \o (IF i < Len(machine_code) - 1 THEN <<10>> ELSE <<>>)
         \o text_output(machine_code, i + 1)

\* the binary-mode loop
RECURSIVE binary_output(_)
binary_output(machine_code) ==
    IF Len(machine_code) = 0 THEN <<>>
    ELSE to_be_bytes(Head(machine_code)) \o binary_output(Tail(machine_code))

\* the std::io::Error of a File::create that failed, boxed as it is
IoError == [description |-> "io error", line |-> None]

\* assemble_to_file after assemble has returned; created says whether
\* File::create succeeded.  file is None while no file was created.
file_written(assembled, as_text, created) ==
    IF assembled.tag = "Err" THEN [ret |-> assembled, file |-> None]
    ELSE IF ~created THEN [ret |-> Err(<<IoError>>), file |-> None]
    ELSE [ret |-> Ok(TRUE),
          file |-> Some(IF as_text THEN text_output(assembled.val, 0)
                        ELSE binary_output(assembled.val))]

assemble_to_file(insts, labs, as_text, created) ==
    file_written(assemble(insts, labs), as_text, created)

file_result(written) ==
    result' = [op |-> "assemble_to_file", ret |-> written.ret, file |-> written.file]

\* a call of assemble_to_file
AssembleToFile ==
    /\ pc = "idle"
    /\ \E created \in BOOLEAN :
            file_result(assemble_to_file(instructions, labels, config.text_output, created))
    /\ UNCHANGED <<config, instructions, labels, defines, line, pc, input, errors,
                   trace, parseFailed>>

NextStatement == StatementStart \/ StatementLine \/ ParseEnd \/ Assemble \/ AssembleToFile

SpecStatement == InitStatement /\ [][NextStatement]_vars

(***************************************************************************)
(* Notions the properties below are stated with.                           *)
(***************************************************************************)
RECURSIVE Flatten(_)
Flatten(seqs) == IF Len(seqs) = 0 THEN <<>> ELSE Head(seqs) \o Flatten(Tail(seqs))

\* the fragments handled so far, over all parse calls, in source order
History == Flatten(trace)

Failed(entry) == entry.tag = "Err"

\* a fragment that is a well-formed label definition, and the name it defines
IsLabelDefinition(piece) ==
    Len(split_whitespace(piece)) = 1 /\ ends_with(piece, ":")

LabelName(piece) == SubSeq(piece, 1, Len(piece) - 1)

\* a fragment that is a well-formed #define directive
IsDefine(piece) ==
    Len(split_whitespace(piece)) = 3 /\ split_whitespace(piece)[1] = "#define"

DefineName(piece) == split_whitespace(piece)[2]

DefineValue(piece) == split_whitespace(piece)[3]

\* the entries a step has added to the history of the current call
Added == IF Len(trace') = Len(trace) /\ Len(trace) > 0
         THEN SubSeq(trace'[Len(trace)], Len(trace[Len(trace)]) + 1, Len(trace'[Len(trace)]))
         ELSE <<>>

\* the label an instruction's location names, "" when it names none
ReferencedLabel(instruction) ==
    IF instruction[1] \in {"Jump", "Call"} /\ instruction[2][1] = "Label"
    THEN instruction[2][2]
    ELSE IF instruction[1] = "Branch" /\ instruction[3][1] = "Label" THEN instruction[3][2]
    ELSE ""

ReferencesLabel(instruction) ==
    \/ instruction[1] \in {"Jump", "Call"} /\ instruction[2][1] = "Label"
    \/ instruction[1] = "Branch" /\ instruction[3][1] = "Label"

\* parse has returned and nothing was called since
ParseReturned == pc = "idle" /\ result.op = "parse"

\* assemble has returned and nothing was called since
AssembleReturned == pc = "idle" /\ result.op = "assemble"

CapacityDescription ==
    "Program reached maximum size (" \o ToString(MAX_POSSIBLE_COUNT) \o " instructions)"

\* the errors a call returned, none when it returned Ok
Returned == IF result.ret.tag = "Err" THEN result.ret.err ELSE <<>>

HasCapacityError ==
    \E k \in 1..Len(Returned) : Returned[k] = AssemblerError_new(CapacityDescription)

(***************************************************************************)
(* C1.  A label definition binds the label to the number of instructions   *)
(* that precede it in source order, those of earlier fragments of the      *)
(* same physical line included.  Stated for inputs in which every          *)
(* fragment so far was accepted, so that every instruction parsed is in    *)
(* the instruction list.                                                   *)
(***************************************************************************)
C1_LabelBindsPrecedingInstructionCount ==
    (pc # "panicked" /\ \A k \in 1..Len(History) : ~Failed(History[k])) =>
        \A k \in 1..Len(History) :
            IsLabelDefinition(History[k].piece) =>
                labels[LabelName(History[k].piece)]
                    = Cardinality({j \in 1..(k - 1) : History[j].emitted})

(***************************************************************************)
(* C2.  Forward-reference equivalence: when assemble succeeds, the address *)
(* field of every jmp/brh/cal that names a label is the index recorded for *)
(* that label in pass 1, whether the instruction was parsed before or      *)
(* after the label's definition.                                           *)
(***************************************************************************)
AddressField(word) == word % 1024

C3_CapacityErrorIffCountExceedsCapacity ==
    ParseReturned => (HasCapacityError <=> Len(instructions) > MAX_POSSIBLE_COUNT)

(***************************************************************************)
(* C4.  Label bindings are write-once: no step changes or removes a        *)
(* binding of the label table, and a definition of a name that is already  *)
(* bound is an error of that statement.                                    *)
(***************************************************************************)
C4_LabelsWriteOnce ==
    [][/\ \A n \in DOMAIN labels : n \in DOMAIN labels' /\ labels'[n] = labels[n]
       /\ pc' # "panicked" =>
            \A k \in 1..Len(Added) :
                (IsLabelDefinition(Added[k].piece)
                 /\ LabelName(Added[k].piece) \in DOMAIN labels) => Failed(Added[k])]_vars

\* L was defined again where the instruction count had moved on, further
\* statements followed, and L still has its first index
C4_Witness ==
    /\ "L" \in DOMAIN labels
    /\ Len(instructions) > labels["L"]
    /\ \E k \in 1..Len(History) :
        /\ History[k].piece = "L:" /\ Failed(History[k])
        /\ k < Len(History)
        /\ History[k].line > 1

(***************************************************************************)
(* C5.  Define bindings are write-once: no step changes or removes a       *)
(* binding of the define table; a #define of a name already in the table   *)
(* (a seeded one such as RNG included) is an error; a #define of a name    *)
(* not in the table binds it, so that without default_defines the seeded   *)
(* names are free.                                                         *)
(***************************************************************************)
C5_DefinesWriteOnce ==
    [][/\ \A n \in DOMAIN defines : n \in DOMAIN defines' /\ defines'[n] = defines[n]
       /\ pc' # "panicked" =>
            \A k \in 1..Len(Added) :
                IsDefine(Added[k].piece) =>
                    IF DefineName(Added[k].piece) \in DOMAIN defines
                    THEN Failed(Added[k])
                    ELSE (\A j \in 1..(k - 1) :
                              IsDefine(Added[j].piece) =>
                                  DefineName(Added[j].piece) # DefineName(Added[k].piece))
                         => /\ ~Failed(Added[k])
                            /\ defines'[DefineName(Added[k].piece)]
                                   = DefineValue(Added[k].piece)]_vars

\* with default_defines, `#define RNG 1` was refused and RNG is still 254
C5_Witness ==
    /\ config.default_defines
    /\ defines["RNG"] = "254"
    /\ \E k \in 1..Len(History) : History[k].piece = "#define RNG 1" /\ Failed(History[k])

(***************************************************************************)
(* C6.  Define/literal equivalence: once PORT is defined as 254, a         *)
(* statement with PORT as an operand has the same outcome as the statement *)
(* with the literal 254 in its place.                                      *)
(***************************************************************************)
\* instruction statements with the token PORT in each operand position
PortStatements ==
    {"ldi r1 PORT", "adi r1 PORT", "jmp PORT", "cal PORT", "brh zero PORT",
     "brh PORT 0", "lod r1 r2 PORT", "add PORT r1 r2", "rsh r1 PORT", "nop PORT"}

ReplaceToken(statement, from, to) ==
    join([i \in 1..Len(split_whitespace(statement)) |->
             IF split_whitespace(statement)[i] = from THEN to
             ELSE split_whitespace(statement)[i]], " ")

\* what the next line would give for the statement, in the current state
OutcomeOf(statement) ==
    parse_piece(statement, labels, defines, Len(instructions), line + 1,
                config.overflow_checks)

PortDefined == pc # "panicked" /\ "PORT" \in DOMAIN defines /\ defines["PORT"] = "254"

C6_DefineLiteralEquivalence ==
    PortDefined =>
        \A statement \in PortStatements :
            OutcomeOf(statement) = OutcomeOf(ReplaceToken(statement, "PORT", "254"))

\* C6 as amended: the same, provided the text 254 is not itself a define name
C6_DefineLiteralEquivalenceUnlessLiteralDefined ==
    (PortDefined /\ "254" \notin DOMAIN defines) =>
        \A statement \in PortStatements :
            OutcomeOf(statement) = OutcomeOf(ReplaceToken(statement, "PORT", "254"))

\* PORT is 254, 254 is no define name, and `ldi r1 PORT` has loaded 254
C6_Witness ==
    /\ PortDefined /\ "254" \notin DOMAIN defines
    /\ \E k \in 1..Len(History) : History[k].piece = "ldi r1 PORT" /\ History[k].emitted
    /\ \E i \in 1..Len(instructions) : instructions[i][1] = <<"LoadImmediate", 1, 254>>

(***************************************************************************)
(* C7.  Error aggregation in pass 1: every fragment of every line of the   *)
(* input is handled, whatever failed before it; the list parse returns     *)
(* holds one error per failing fragment, in order (and after them the      *)
(* capacity error, if any); and the instruction list holds nothing of a    *)
(* failing fragment.                                                       *)
(***************************************************************************)
\* the fragments of a line, as the lexical splitter gives them
Fragments(text) == IF strip(text) = "" THEN <<>> ELSE pieces_of(strip(text))

NumberedFragments(text, l) ==
    [k \in 1..Len(Fragments(text)) |-> [line |-> l, piece |-> Fragments(text)[k]]]

RECURSIVE AllFragments(_, _)
AllFragments(lines, done) ==
    IF done = Len(lines) THEN <<>>
    ELSE NumberedFragments(lines[done + 1], done + 1) \o AllFragments(lines, done + 1)

Positions(entries) == [k \in 1..Len(entries) |-> [line |-> entries[k].line, piece |-> entries[k].piece]]

\* the errors of the statements among those returned: all but the capacity error
StatementErrors ==
    IF HasCapacityError THEN SubSeq(Returned, 1, Len(Returned) - 1) ELSE Returned

\* the entries of a call that put an instruction in the list: those of lines
\* without a failing fragment
Committed(entries) ==
    LET Kept(e) == e.emitted /\ \A k \in 1..Len(entries) :
                                    entries[k].line = e.line => ~Failed(entries[k])
    IN SelectSeq(entries, Kept)

RECURSIVE CommittedLines(_)
CommittedLines(calls) ==
    IF Len(calls) = 0 THEN <<>>
    ELSE [k \in 1..Len(Committed(Head(calls))) |-> Committed(Head(calls))[k].line]
         \o CommittedLines(Tail(calls))

C7_OneErrorPerFailingFragment ==
    pc # "panicked" =>
        /\ \A c \in 1..Len(input) : Positions(trace[c]) = AllFragments(input[c], 0)
        /\ [i \in 1..Len(instructions) |-> instructions[i][2]] = CommittedLines(trace)
        /\ ParseReturned =>
            /\ Len(StatementErrors) = Len(SelectSeq(trace[Len(trace)], Failed))
            /\ \A k \in 1..Len(StatementErrors) :
                StatementErrors[k].line
                    \in {None, Some(SelectSeq(trace[Len(trace)], Failed)[k].line)}

\* parse returned two errors of one line and one of another line, and the
\* input also had a line that was accepted
C7_Witness ==
    /\ ParseReturned
    /\ Len(input) = 1
    /\ Len(instructions) > 0
    /\ \E a, b, c \in 1..Len(Returned) :
        /\ a < b /\ b < c
        /\ Returned[a].line = Returned[b].line
        /\ Returned[c].line # None /\ Returned[c].line # Returned[b].line

(***************************************************************************)
(* C8.  Pass 2 returns exactly one error per instruction that names an     *)
(* undefined label, in instruction order, each with the source line        *)
(* recorded for the instruction in pass 1; with no such instruction it     *)
(* returns the words.                                                      *)
(***************************************************************************)
Undefined(entry) ==
    ReferencesLabel(entry[1]) /\ ReferencedLabel(entry[1]) \notin DOMAIN labels

C8_OneErrorPerUndefinedLabel ==
    AssembleReturned =>
        /\ Len(Returned) = Len(SelectSeq(instructions, Undefined))
        /\ \A k \in 1..Len(Returned) :
            Returned[k] = AssemblerError_new_line(
                "Unknown label \"" \o ReferencedLabel(SelectSeq(instructions, Undefined)[k][1])
                \o "\"", SelectSeq(instructions, Undefined)[k][2])
        /\ result.ret.tag = "Ok" <=> SelectSeq(instructions, Undefined) = <<>>

\* assemble returned two undefined-label errors, and the line of one of them
\* is not the position of its instruction plus one
C8_Witness ==
    /\ AssembleReturned
    /\ Len(Returned) = 2
    /\ \E i \in 1..Len(instructions) :
        /\ Undefined(instructions[i])
        /\ instructions[i][2] # i
        /\ \E k \in 1..Len(Returned) : Returned[k].line = Some(instructions[i][2])

(***************************************************************************)
(* C9.  Once parse has returned an error list, assemble on the same        *)
(* assembler does not return a word sequence built from the instructions   *)
(* that parse did append.                                                  *)
(***************************************************************************)
C9_NoImageAfterFailedParse ==
    ~(parseFailed /\ AssembleReturned /\ result.ret.tag = "Ok" /\ result.ret.val # <<>>)

(***************************************************************************)
(* C10.  For any input text parse ends by returning Ok or an error list:   *)
(* no statement makes the run panic.                                       *)
(***************************************************************************)
C10_ParseNeverPanics == pc # "panicked"

(***************************************************************************)
(* C11.  Every error of a statement of pass 1 carries the 1-based number   *)
(* of the physical line of that statement; only the capacity error is      *)
(* unnumbered.                                                             *)
(***************************************************************************)
\* the failing fragments of the current parse call, in order
FailedFragments == SelectSeq(trace[Len(trace)], Failed)

C11_StatementErrorsCarryTheirLine ==
    ParseReturned =>
        /\ Len(StatementErrors) = Len(FailedFragments)
        /\ \A k \in 1..Len(StatementErrors) :
            StatementErrors[k].line = Some(FailedFragments[k].line)

(***************************************************************************)
(* C12.  The error list parse returns is sorted under AssemblerError's     *)
(* ordering: lines are non-decreasing and an error without a line stands   *)
(* before every error with one.                                            *)
(***************************************************************************)
C12_ErrorListSortedByLine ==
    ParseReturned =>
        \A j, k \in 1..Len(Returned) : j < k => cmp(Returned[j], Returned[k]) <= 0

(***************************************************************************)
(* C13.  For every integer n of -128..255 each spelling of n (decimal,     *)
(* 0x-hexadecimal, 0b-binary, with or without `_` between the digits) is   *)
(* accepted as an immediate and gives the 8-bit pattern of n; every        *)
(* spelling of -129 and of 256 is rejected with an error.                  *)
(***************************************************************************)
\* the statements that spell each value
Spelled == [n \in ImmediateValues |-> {"ldi r1 " \o spelling : spelling \in Spellings(n)}]

SpelledValue(statement) == CHOOSE n \in ImmediateValues : statement \in Spelled[n]

\* parse has returned for an input of the one line `statement`
ParsedAlone(statement) == ParseReturned /\ input = <<<<statement>>>>

\* the one line of the input is a statement of the set
ParsedOneOf(statements) ==
    ParseReturned /\ Len(input) = 1 /\ Len(input[1]) = 1 /\ input[1][1] \in statements

Loaded(value) == instructions = <<<<<<"LoadImmediate", 1, value>>, 1>>>>

C13_ImmediateSpellingsAgree ==
    ParsedOneOf(ImmediateStatements) =>
        IF SpelledValue(input[1][1]) \in (0 - 128)..255
        THEN result.ret.tag = "Ok" /\ Loaded((SpelledValue(input[1][1]) + 256) % 256)
        ELSE result.ret.tag = "Err"

(***************************************************************************)
(* C14.  For every character c of the table the statement `ldi r1 'c'` is  *)
(* accepted and loads the table index of c; a quoted single character      *)
(* outside the table is an error.                                          *)
(***************************************************************************)
SingleCharacters == {c \in QuotedCharacters : Len(c) = 1}

Quoting == [c \in SingleCharacters |-> "ldi r1 '" \o c \o "'"]

QuotedCharacter(statement) == CHOOSE c \in SingleCharacters : Quoting[c] = statement

InTable(c) == \E i \in 1..Len(CHARACTERS) : CHARACTERS[i] = c

TableIndex(c) == (CHOOSE i \in 1..Len(CHARACTERS) : CHARACTERS[i] = c) - 1

C14_CharacterLiteralIsTableIndex ==
    ParsedOneOf({Quoting[c] : c \in SingleCharacters}) =>
        IF InTable(QuotedCharacter(input[1][1]))
        THEN result.ret.tag = "Ok" /\ Loaded(TableIndex(QuotedCharacter(input[1][1])))
        ELSE result.ret.tag = "Err"

(***************************************************************************)
(* C15.  A register token is accepted exactly when it is `r` followed by   *)
(* decimal digits only, of a value in 0..15, and then gives that value; a  *)
(* token of digits out of range, a token with a non-digit after the `r`    *)
(* and a token that does not start with `r` are rejected with three        *)
(* different kinds of description.                                         *)
(***************************************************************************)
AllDecimalDigits(s) ==
    Len(s) > 0 /\ \A i \in 1..Len(s) : \E d \in 1..10 : Digits[d] = CharAt(s, i)

RECURSIVE Unpadded(_)
Unpadded(s) == IF Len(s) > 1 /\ Head(s) = "0" THEN Unpadded(Tail(s)) ELSE s

\* how a register token is to be treated
RegisterClass(token) ==
    IF ~starts_with(token, "r") THEN "prefix"
    ELSE IF ~AllDecimalDigits(Tail(token)) THEN "malformed"
    ELSE IF \E n \in 0..15 : ToString(n) = Unpadded(Tail(token)) THEN "register"
    ELSE "range"

RegisterValue(token) == CHOOSE n \in 0..15 : ToString(n) = Unpadded(Tail(token))

\* the kind of a register error, from its description
RegisterErrorKind(description) ==
    IF ends_with(description, "must start with a lowercase 'r'") THEN "prefix"
    ELSE IF ends_with(description, "out of range, expected 0-15") THEN "range"
    ELSE IF starts_with(description, "Failed to parse register") THEN "malformed"
    ELSE "other"

RegisterToken == split_whitespace(input[1][1])[2]

C15_RegisterTokens ==
    ParsedOneOf(RegisterStatements) =>
        IF RegisterClass(RegisterToken) = "register"
        THEN /\ result.ret.tag = "Ok"
             /\ instructions = <<<<<<"LoadImmediate", RegisterValue(RegisterToken), 0>>, 1>>>>
        ELSE /\ result.ret.tag = "Err"
             /\ Len(Returned) = 1
             /\ \/ RegisterErrorKind(Returned[1].description) = RegisterClass(RegisterToken)
                \/ /\ RegisterClass(RegisterToken) = "range"
                   /\ Len(Unpadded(Tail(RegisterToken))) > 9
                   /\ RegisterErrorKind(Returned[1].description) = "malformed"

(***************************************************************************)
(* C16.  Sugar/primitive equivalence, for all registers: the word          *)
(* assembled for `cmp a b` is that of `sub a b r0`, for `mov a c` that of  *)
(* `add a r0 c`, for `lsh a c` that of `add a a c`, for `inc a` that of    *)
(* `adi a 1`, for `dec a` that of `adi a -1`, for `not a c` that of        *)
(* `nor a r0 c`, and for `neg a c` that of `sub r0 a c`.                   *)
(***************************************************************************)
\* the primitive statement a sugar statement stands for, from its tokens
PrimitiveOf(t) ==
    CASE t[1] = "cmp" -> join(<<"sub", t[2], t[3], "r0">>, " ")
      [] t[1] = "mov" -> join(<<"add", t[2], "r0", t[3]>>, " ")
      [] t[1] = "lsh" -> join(<<"add", t[2], t[2], t[3]>>, " ")
      [] t[1] = "inc" -> join(<<"adi", t[2], "1">>, " ")
      [] t[1] = "dec" -> join(<<"adi", t[2], "-1">>, " ")
      [] t[1] = "not" -> join(<<"nor", t[2], "r0", t[3]>>, " ")
      [] t[1] = "neg" -> join(<<"sub", "r0", t[2], t[3]>>, " ")

\* the word of the instruction a parse outcome holds, at address 0
WordOfOutcome(out) ==
    IF out.res.tag = "Ok" /\ out.res.val # None
    THEN binary(out.res.val[1], 0, out.labels)
    ELSE out.res

\* the word a statement gives as the first statement of a fresh program
WordOf(statement) ==
    WordOfOutcome(parse_piece(statement, EmptyMap, EmptyMap, 0, 1, config.overflow_checks))

\* assemble has returned for an input of one line, which is of the set
AssembledOneOf(statements) ==
    AssembleReturned /\ Len(input) = 1 /\ Len(input[1]) = 1 /\ input[1][1] \in statements

C16_SugarEncodesAsPrimitive ==
    AssembledOneOf(SugarStatements) =>
        /\ result.ret.tag = "Ok"
        /\ Len(result.ret.val) = 1
        /\ Ok(result.ret.val[1]) = WordOf(PrimitiveOf(split_whitespace(input[1][1])))

\* `mov r3 r5` was assembled to the word of `add r3 r0 r5`
C16_Witness ==
    /\ AssembleReturned
    /\ input = <<<<"mov r3 r5">>>>
    /\ result.ret = Ok(<<2 * 4096 + 3 * 256 + 5>>)

(***************************************************************************)
(* C17.  `nop` without operands is the instruction NoOperation and encodes *)
(* to the word 0x0000, `hlt` without operands is Halt and encodes to       *)
(* 0x1000, at every instruction position; `nop` or `hlt` followed by an    *)
(* operand token is an arity error and gives no instruction.               *)
(***************************************************************************)
Emitted(entry) == entry.emitted

\* what parse returns for one fragment of `count` operands where none is expected
NoArgumentsError(count, l) ==
    AssemblerError_new_line("Expected no arguments, got " \o ToString(count) \o " instead", l)

NoOperandVariant(name) == IF name = "nop" THEN <<"NoOperation">> ELSE <<"Halt">>

C17_NopAndHltEncoding ==
    /\ \A k \in 1..Len(History) :
        (History[k].piece # "" /\ split_whitespace(History[k].piece)[1] \in {"nop", "hlt"}) =>
            IF Len(split_whitespace(History[k].piece)) = 1
            THEN History[k].emitted
            ELSE Failed(History[k])
    /\ (pc # "panicked" /\ \A k \in 1..Len(History) : ~Failed(History[k])) =>
        /\ Len(SelectSeq(History, Emitted)) = Len(instructions)
        /\ \A i \in 1..Len(instructions) :
            SelectSeq(History, Emitted)[i].piece \in {"nop", "hlt"} =>
                instructions[i][1] = NoOperandVariant(SelectSeq(History, Emitted)[i].piece)
    /\ ParsedOneOf({"nop r1", "hlt 5", "nop nop", "hlt r1 r2"}) =>
        /\ instructions = <<>>
        /\ Returned = <<NoArgumentsError(Len(split_whitespace(input[1][1])) - 1, 1)>>
    /\ (AssembleReturned /\ result.ret.tag = "Ok") =>
        \A i \in 1..Len(instructions) :
            /\ instructions[i][1] = <<"NoOperation">> => result.ret.val[i] = 0
            /\ instructions[i][1] = <<"Halt">> => result.ret.val[i] = 4096

\* `nop; nop; hlt` was assembled: hlt at position 2 is 0x1000
C17_Witness ==
    /\ AssembleReturned
    /\ input = <<<<"nop; nop; hlt">>>>
    /\ result.ret = Ok(<<0, 0, 4096>>)

(***************************************************************************)
(* C18.  A physical line that is empty, only whitespace or only a comment  *)
(* appends no instruction, adds no error and leaves both tables unchanged, *)
(* and it counts as one line: every line takes the next line number, which *)
(* is the number the fragments, instructions and numbered errors of that   *)
(* line are given.                                                         *)
(***************************************************************************)
\* the step hands parse the next line of the current call
LineTaken ==
    /\ pc = "parsing"
    /\ Len(input') = Len(input)
    /\ Len(input'[Len(input)]) = Len(input[Len(input)]) + 1

\* the number and the text of the line a LineTaken step takes
TakenNumber == Len(input'[Len(input)])

TakenText == input'[Len(input)][TakenNumber]

C18_BlankLinesOnlyCount ==
    [][LineTaken =>
        /\ line' = TakenNumber
        /\ TakenText \in Preludes =>
            /\ instructions' = instructions
            /\ errors' = errors
            /\ labels' = labels
            /\ defines' = defines
            /\ trace' = trace
            /\ pc' = "parsing"
        /\ \A k \in 1..Len(Added) : Added[k].line = TakenNumber
        /\ \A k \in (Len(errors) + 1)..Len(errors') :
            errors'[k].line \in {None, Some(TakenNumber)}
        /\ \A k \in (Len(instructions) + 1)..Len(instructions') :
            instructions'[k][2] = TakenNumber]_vars

\* after a line that is only a comment, the error of `foo` has line 2
C18_Witness ==
    /\ ParseReturned
    /\ input = <<<<"// only a comment", "foo">>>>
    /\ instructions = <<>>
    /\ Returned = <<AssemblerError_new_line("Unknown opcode: foo", 2)>>

(***************************************************************************)
(* C19.  Each empty fragment between or after semicolons contributes one   *)
(* error of its line, and the other fragments of the line are parsed all   *)
(* the same: every fragment is handled, the labels and defines they define *)
(* are in the tables, and their own errors are in the returned list.       *)
(***************************************************************************)
UselessSemicolon(l) == AssemblerError_new_line("Useless semicolon", l)

\* the fragment is a statement of an unknown mnemonic
UnknownMnemonic(piece) ==
    /\ piece # ""
    /\ ~ends_with(split_whitespace(piece)[1], ":")
    /\ split_whitespace(piece)[1] # "#define"
    /\ split_whitespace(piece)[1] \notin DOMAIN Expected

\* the fragments of the current call on lines that have an empty fragment
OnLineWithEmptyFragment(entry) ==
    \E k \in 1..Len(trace[Len(trace)]) :
        trace[Len(trace)][k].line = entry.line /\ trace[Len(trace)][k].piece = ""

C19_EmptyFragmentIsOneErrorAndNotFatal ==
    ParseReturned =>
        /\ Positions(trace[Len(trace)]) = AllFragments(input[Len(input)], 0)
        /\ Len(StatementErrors) = Len(FailedFragments)
        /\ \A k \in 1..Len(trace[Len(trace)]) :
            trace[Len(trace)][k].piece = "" => Failed(trace[Len(trace)][k])
        /\ \A k \in 1..Len(StatementErrors) :
            /\ FailedFragments[k].piece = "" =>
                StatementErrors[k] = UselessSemicolon(FailedFragments[k].line)
            /\ FailedFragments[k].piece # "" =>
                StatementErrors[k].description # "Useless semicolon"
            /\ UnknownMnemonic(FailedFragments[k].piece) =>
                StatementErrors[k] = AssemblerError_new_line(
                    "Unknown opcode: " \o split_whitespace(FailedFragments[k].piece)[1],
                    FailedFragments[k].line)
        /\ \A k \in 1..Len(trace[Len(trace)]) :
            OnLineWithEmptyFragment(trace[Len(trace)][k]) =>
                /\ UnknownMnemonic(trace[Len(trace)][k].piece) => Failed(trace[Len(trace)][k])
                /\ IsLabelDefinition(trace[Len(trace)][k].piece) =>
                    LabelName(trace[Len(trace)][k].piece) \in DOMAIN labels
                /\ IsDefine(trace[Len(trace)][k].piece) =>
                    DefineName(trace[Len(trace)][k].piece) \in DOMAIN defines

\* on `L:; ; #define A 1; foo` both definitions took effect and both errors
\* were returned
C19_Witness ==
    /\ ParseReturned
    /\ input = <<<<"L:; ; #define A 1; foo">>>>
    /\ "L" \in DOMAIN labels /\ labels["L"] = 0
    /\ "A" \in DOMAIN defines /\ defines["A"] = "1"
    /\ Returned = <<UselessSemicolon(1), AssemblerError_new_line("Unknown opcode: foo", 1)>>

(***************************************************************************)
(* C20.  Text-mode serialization of an image of N >= 1 words is the N      *)
(* words in instruction order, each as 16 characters `0` or `1`, most      *)
(* significant bit first, with one newline between two words and none      *)
(* after the last: 17N - 1 bytes.  An image of 0 words writes nothing.     *)
(***************************************************************************)
\* assemble_to_file has returned Ok in text mode and nothing was called since
TextFileWritten ==
    /\ pc = "idle"
    /\ result.op = "assemble_to_file"
    /\ result.ret.tag = "Ok"
    /\ config.text_output

\* the value the 16 characters from position `from` spell, most significant first
RECURSIVE BitsValue(_, _, _)
BitsValue(bytes, from, count) ==
    IF count = 0 THEN 0
    ELSE 2 * BitsValue(bytes, from, count - 1) + (bytes[from + count - 1] - 48)

C20_TextSerialization ==
    TextFileWritten =>
        /\ result.file # None
        /\ Len(result.file[1])
            = (IF Len(instructions) = 0 THEN 0 ELSE 17 * Len(instructions) - 1)
        /\ \A i \in 1..Len(instructions) :
            /\ \A b \in 1..16 : result.file[1][17 * (i - 1) + b] \in {48, 49}
            /\ Ok(BitsValue(result.file[1], 17 * (i - 1) + 1, 16))
                = binary(instructions[i][1], i - 1, labels)
            /\ i < Len(instructions) => result.file[1][17 * i] = 10

\* the two words of `hlt; nop` were written as 33 bytes
C20_Witness ==
    /\ TextFileWritten
    /\ input = <<<<"hlt; nop">>>>
    /\ result.file = Some([k \in 1..33 |-> IF k = 4 THEN 49 ELSE IF k = 17 THEN 10 ELSE 48])

(***************************************************************************)
(* C21.  Binary-mode serialization of an image is two bytes per word, the  *)
(* high byte and then the low byte, in instruction order; there is one     *)
(* word per instruction of the list and word i is that of instruction i.   *)
(***************************************************************************)
\* assemble_to_file has returned Ok in binary mode and nothing was called since
BinaryFileWritten ==
    /\ pc = "idle"
    /\ result.op = "assemble_to_file"
    /\ result.ret.tag = "Ok"
    /\ ~config.text_output

C21_BinarySerialization ==
    BinaryFileWritten =>
        /\ result.file # None
        /\ Len(result.file[1]) = 2 * Len(instructions)
        /\ \A i \in 1..Len(instructions) :
            /\ result.file[1][2 * i - 1] \in 0..255
            /\ result.file[1][2 * i] \in 0..255
            /\ Ok(256 * result.file[1][2 * i - 1] + result.file[1][2 * i])
                = binary(instructions[i][1], i - 1, labels)

\* `ldi r1 5; nop; hlt; nop` was written as the bytes 81 05 00 00 10 00 00 00
C21_Witness ==
    /\ BinaryFileWritten
    /\ input = <<<<"ldi r1 5; nop; hlt; nop">>>>
    /\ result.file = Some(<<129, 5, 0, 0, 16, 0, 0, 0>>)

(***************************************************************************)
(* C22.  For every jmp, cal or brh whose location the parser accepted, the  *)
(* address field of the encoded word is the resolved address, without       *)
(* truncation; the opcode field is the opcode, and in brh the condition     *)
(* field is the condition.                                                  *)
(***************************************************************************)
LastToken(statement) ==
    split_whitespace(statement)[Len(split_whitespace(statement))]

\* the address a statement of AddressStatements names: the index the label
\* table binds L to, or the number
NamedAddress(statement) ==
    IF LastToken(statement) = "L" THEN labels["L"]
    ELSE CHOOSE n \in AddressValues : ToString(n) = LastToken(statement)

NamedOpcode(statement) ==
    IF \E n \in 1..Len(split_whitespace(statement)) : split_whitespace(statement)[n] = "jmp"
    THEN 10
    ELSE IF \E n \in 1..Len(split_whitespace(statement)) :
                split_whitespace(statement)[n] = "cal"
    THEN 12 ELSE 11

\* the condition code of a brh statement, by the order of the conditions
NamedCondition(statement) ==
    LET t == split_whitespace(statement) IN
    CASE t[Len(t) - 1] = "zero" -> 0
      [] t[Len(t) - 1] = "notzero" -> 1
      [] t[Len(t) - 1] = "carry" -> 2
      [] t[Len(t) - 1] = "notcarry" -> 3

\* assemble has returned for a statement of AddressStatements that parse accepted
LocationAccepted ==
    /\ AssembledOneOf(AddressStatements)
    /\ instructions # <<>>

LastWord == result.ret.val[Len(result.ret.val)]

C22_AddressFieldIsTheAddress ==
    LocationAccepted =>
        /\ result.ret.tag = "Ok"
        /\ LastWord \div 4096 = NamedOpcode(input[1][1])
        /\ IF NamedOpcode(input[1][1]) = 11
           THEN /\ (LastWord \div 1024) % 4 = NamedCondition(input[1][1])
                /\ LastWord % 1024 = NamedAddress(input[1][1])
           ELSE LastWord % 4096 = NamedAddress(input[1][1])

(***************************************************************************)
(* C23.  The word of an instruction without a location is made of its       *)
(* operands: the opcode index in bits 15..12, register A in bits 11..8,     *)
(* register B in bits 7..4, register C or the offset in 4-bit two's         *)
(* complement in bits 3..0, the immediate as an 8-bit pattern in bits 7..0, *)
(* and every other bit zero.                                                *)
(***************************************************************************)
Opcode ==
    [nop |-> 0, hlt |-> 1, add |-> 2, sub |-> 3, nor |-> 4, and |-> 5, xor |-> 6,
     rsh |-> 7, ldi |-> 8, adi |-> 9, jmp |-> 10, brh |-> 11, cal |-> 12, ret |-> 13,
     lod |-> 14, str |-> 15]

\* the number a decimal token of a range spells
Spelt(token, range) == CHOOSE n \in range : ToString(n) = token

\* the operand bits of the tokens of a statement of EncodingStatements
OperandBits(t) ==
    CASE t[1] \in {"add", "sub", "nor", "and", "xor"} ->
            256 * RegisterValue(t[2]) + 16 * RegisterValue(t[3]) + RegisterValue(t[4])
      [] t[1] = "rsh" -> 256 * RegisterValue(t[2]) + RegisterValue(t[3])
      [] t[1] \in {"lod", "str"} ->
            256 * RegisterValue(t[2]) + 16 * RegisterValue(t[3])
            + ((Spelt(t[4], (0 - 8)..7) + 16) % 16)
      [] t[1] \in {"ldi", "adi"} ->
            256 * RegisterValue(t[2]) + ((Spelt(t[3], (0 - 128)..255) + 256) % 256)
      [] OTHER -> 0

ExpectedWord(t) == 4096 * Opcode[t[1]] + OperandBits(t)

C23_OperandsAreTheFieldsOfTheWord ==
    AssembledOneOf(EncodingStatements) =>
        /\ result.ret.tag = "Ok"
        /\ result.ret.val = <<ExpectedWord(split_whitespace(input[1][1]))>>

C23_Witness ==
    /\ AssembledOneOf(EncodingStatements)
    /\ input = <<<<"lod r9 r15 -8">>>>
    /\ instructions = <<<<<<"MemoryLoad", 9, 15, 0 - 8>>, 1>>>>
    /\ result.ret = Ok(<<59896>>)

(***************************************************************************)
(* C24.  assemble changes neither the instruction list nor the label table  *)
(* nor the define table, whether it returns words or errors, and a call     *)
(* of assemble right after another returns what the first returned.         *)
(***************************************************************************)
\* the step is a call of assemble
AssembleCalled == pc = "idle" /\ pc' = "idle" /\ result'.op = "assemble"

LineFailed == \E k \in 1..Len(Added) : Failed(Added[k])

C25_LinesCommitWholeOrNot ==
    [][LineTaken /\ pc' = "parsing" =>
        /\ Len(instructions') >= Len(instructions)
        /\ SubSeq(instructions', 1, Len(instructions)) = instructions
        /\ LineFailed => instructions' = instructions
        /\ ~LineFailed =>
            Len(instructions') = Len(instructions) + Len(SelectSeq(Added, Emitted))
        /\ \A k \in 1..Len(Added) :
            ~Failed(Added[k]) =>
                /\ IsLabelDefinition(Added[k].piece) =>
                    LabelName(Added[k].piece) \in DOMAIN labels'
                /\ IsDefine(Added[k].piece) =>
                    /\ DefineName(Added[k].piece) \in DOMAIN defines'
                    /\ defines'[DefineName(Added[k].piece)] = DefineValue(Added[k].piece)]_vars

\* a line with a valid instruction, a valid label, a valid define and a
\* failing fragment has been parsed
C25_Witness ==
    /\ ParseReturned
    /\ input = <<<<"nop; L:; #define A 1; foo">>>>
    /\ result.ret.tag = "Err"
    /\ instructions = <<>>
    /\ "L" \in DOMAIN labels
    /\ "A" \in DOMAIN defines
    /\ defines["A"] = "1"

(***************************************************************************)
(* C26.  A define has no forward reference: every statement is parsed as    *)
(* its text with each operand token that an earlier valid #define (or a     *)
(* default define) names replaced once by that define's value; the          *)
(* replacement is not looked up again, and the mnemonic is never replaced.  *)
(***************************************************************************)
InitialDefines == IF config.default_defines THEN DefaultDefines ELSE EmptyMap

\* the table the valid #define fragments among the entries make, over `table`
RECURSIVE DefinesOf(_, _)
DefinesOf(entries, table) ==
    IF Len(entries) = 0 THEN table
    ELSE DefinesOf(Tail(entries),
                   IF ~Failed(Head(entries)) /\ IsDefine(Head(entries).piece)
                   THEN insert(table, DefineName(Head(entries).piece),
                               DefineValue(Head(entries).piece))
                   ELSE table)

\* the defines made textually before the k-th fragment
TableBefore(k) == DefinesOf(SubSeq(History, 1, k - 1), InitialDefines)

\* a fragment that is neither empty nor a label nor a directive
IsStatement(piece) ==
    /\ piece # ""
    /\ ~ends_with(split_whitespace(piece)[1], ":")
    /\ split_whitespace(piece)[1] # "#define"

\* the text of the piece with every operand token the table names replaced once
ReplacedOperands(piece, table) ==
    join([i \in 1..Len(split_whitespace(piece)) |->
             IF i > 1 /\ split_whitespace(piece)[i] \in DOMAIN table
             THEN table[split_whitespace(piece)[i]]
             ELSE split_whitespace(piece)[i]], " ")

\* what the k-th fragment gives when its replaced text is parsed without defines
ExpectedOf(k) ==
    parse_piece(ReplacedOperands(History[k].piece, TableBefore(k)), EmptyMap, EmptyMap,
                0, History[k].line, config.overflow_checks).res

\* the instructions the fragments from k on are expected to give
RECURSIVE ExpectedInstructions(_)
ExpectedInstructions(k) ==
    IF k > Len(History) THEN <<>>
    ELSE IF IsStatement(History[k].piece) /\ ExpectedOf(k).tag = "Ok"
    THEN <<<<ExpectedOf(k).val[1], History[k].line>>>> \o ExpectedInstructions(k + 1)
    ELSE ExpectedInstructions(k + 1)

C26_DefinesReplaceLaterOperandsOnce ==
    (ParseReturned /\ Len(input) = 1) =>
        /\ \A k \in 1..Len(History) :
            IsStatement(History[k].piece) =>
                (Failed(History[k]) <=> ExpectedOf(k).tag = "Err")
        /\ result.ret.tag = "Ok" => instructions = ExpectedInstructions(1)

\* the use before the directive failed, the use after it loaded the value
C26_Witness ==
    /\ ParseReturned
    /\ input = <<<<"ldi r1 A; #define A 1; ldi r1 A">>>>
    /\ Failed(History[1])
    /\ ~Failed(History[2])
    /\ History[3].emitted
    /\ defines["A"] = "1"

(***************************************************************************)
(* C27.  The instructions (line numbers aside), the label table and the     *)
(* define table after several parse calls are those of one parse of the     *)
(* calls' lines, one after the other, by a fresh assembler.                 *)
(***************************************************************************)
\* a fresh assembler, as far as one parse goes
Fresh == [instructions |-> <<>>, labels |-> EmptyMap, defines |-> InitialDefines,
          panicked |-> FALSE]

\* the assembler st after a line for which parse_line gave out
AfterLine(st, out) ==
    [instructions |-> IF out.res.tag = "Ok" THEN st.instructions \o out.res.val
                      ELSE st.instructions,
     labels |-> out.labels, defines |-> out.defines, panicked |-> out.res.tag = "Panic"]

\* one parse of the lines after the first `done`, by the assembler st
RECURSIVE ParsedWhole(_, _, _)
ParsedWhole(lines, done, st) ==
    IF done = Len(lines) \/ st.panicked THEN st
    ELSE ParsedWhole(lines, done + 1,
                     AfterLine(st, parse_line(lines[done + 1], st.labels, st.defines,
                                              Len(st.instructions), done + 1,
                                              config.overflow_checks, <<>>)))

\* the instructions of a list, without the lines recorded with them
Variants(insts) == [i \in 1..Len(insts) |-> insts[i][1]]

SameProgram(st) ==
    /\ Variants(instructions) = Variants(st.instructions)
    /\ labels = st.labels
    /\ defines = st.defines
    /\ (pc = "panicked") = st.panicked

C27_ParseCallsAccumulate == SameProgram(ParsedWhole(Flatten(input), 0, Fresh))

\* a second parse call has bound a label behind the two instructions of the first
C27_Witness ==
    /\ ParseReturned
    /\ input = <<<<"nop; L:; hlt">>, <<":">>>>
    /\ Len(instructions) = 2
    /\ labels[""] = 2
    /\ line = 1

(***************************************************************************)
(* C28.  AssemblerError's ordering agrees with its equality: two errors a   *)
(* call returned compare Equal exactly when they are equal, in description  *)
(* and in line.                                                             *)
(***************************************************************************)
C28_OrderingAgreesWithEquality ==
    result.op # "none" =>
        \A i \in 1..Len(Returned) : \A j \in 1..Len(Returned) :
            (cmp(Returned[i], Returned[j]) = 0) <=> eq(Returned[i], Returned[j])

====
